---- MODULE Spec2Model ----
(***************************************************************************)
(* Model of nano-genie's DynamicsModel (src/models/dynamics.py):           *)
(*   - forward_inference: the MaskGit-style iterative decoding loop, its   *)
(*     exponential schedule, per-batch-element top-k commit, the final     *)
(*     completion pass and the optional NG_VERIFY_MASK assertion;          *)
(*   - forward: training-time masking with temporal anchors and the        *)
(*     targets assertion.                                                  *)
(* Tensors are functions over index tuples; indices are 0-based as in the  *)
(* source.  The scoring pass (transformer + output_mlp + softmax) is an    *)
(* unconstrained input: every step draws an arbitrary probability vector   *)
(* per horizon cell.                                                       *)
(***************************************************************************)
EXTENDS Integers, Sequences, FiniteSets, TLC

(***************************************************************************)
(* Bounds of the model.                                                    *)
(***************************************************************************)
MaxB == 2
MaxH == 3
MaxP == 3
MaxTctx == 1
MaxSteps == 3
MaxCells == 4
MaxSampledCells == 3
MaxT == 2
MaxPositions == 12
RandUnits == 4
codebook_size == 2

Max2(a, b) == IF a >= b THEN a ELSE b
Min2(a, b) == IF a <= b THEN a ELSE b

(***************************************************************************)
(* Values held by grid cells.                                              *)
(***************************************************************************)
Classes == 0 .. (codebook_size - 1)
mask_token == <<"mask_token">>
IndexToLatents(idx) == <<"latent", idx>>

Cells(nb, t0, nt, np) ==
    {<<b, t, p>> : b \in 0 .. (nb - 1), t \in t0 .. (t0 + nt - 1), p \in 0 .. (np - 1)}

(***************************************************************************)
(* Output of softmax in units of 1/ProbUnits: every class has a positive   *)
(* probability and the probabilities sum to one.                           *)
(***************************************************************************)
ProbUnits == codebook_size + 2

RECURSIVE SumTo(_, _)
SumTo(v, i) == IF i < 0 THEN 0 ELSE v[i] + SumTo(v, i - 1)

ProbVectors ==
    {v \in [Classes -> 1 .. (ProbUnits - 1)] : SumTo(v, codebook_size - 1) = ProbUnits}

\* torch.max(probs, dim=-1): the maximal value and the index of its first occurrence
MaxProb(v) == CHOOSE x \in {v[i] : i \in Classes} : \A i \in Classes : v[i] <= x
ArgMax(v) == CHOOSE i \in Classes : v[i] = MaxProb(v) /\ \A j \in Classes : v[j] = MaxProb(v) => i <= j

(***************************************************************************)
(* float32 and the exponential schedule.                                   *)
(***************************************************************************)
Float32Exact == 2^24

RECURSIVE Ulp(_)
Ulp(n) == IF n < Float32Exact THEN 1 ELSE 2 * Ulp(n \div 2)

\* torch.tensor(n, dtype=torch.float32) for an integer n >= 0: round to nearest, ties to even
ToFloat32(n) ==
    LET u == Ulp(n)
        q == n \div u
        r == n % u
    IN  IF 2 * r > u \/ (2 * r = u /\ q % 2 = 1) THEN (q + 1) * u ELSE q * u

FixedOne == 10^5

\* FixedOne * exp(num/den), by the Taylor series in fixed point
RECURSIVE ExpSeries(_, _, _, _)
ExpSeries(term, num, den, i) ==
    IF term = 0 THEN 0 ELSE term + ExpSeries((term * num) \div (den * i), num, den, i + 1)

\* FixedOne * expm1(num/den)
Expm1(num, den) == ExpSeries(FixedOne, num, den, 1) - FixedOne

\* exp_schedule_torch(t, T, P_total, k): the returned float as a rational [num, den]
exp_schedule_torch(t, T, Ptot, k) ==
    IF t = T - 1
    THEN [num |-> ToFloat32(Ptot), den |-> 1]
    ELSE [num |-> Ptot * Expm1(k * t, Max2(T, 1)), den |-> Expm1(k, 1)]

\* int(torch.ceil(x).item())
Ceil(x) == (x.num + x.den - 1) \div x.den

schedule_k == 5

TargetUnmasked(step, nsteps, Ptot) == Ceil(exp_schedule_torch(step, nsteps, Ptot, schedule_k))

(***************************************************************************)
(* State.                                                                  *)
(***************************************************************************)
VARIABLES
    B, T_ctx, P, H, num_steps, temperature,   \* arguments of forward_inference
    topk_tie,            \* how this build's torch.topk orders equal values
    input_latents,       \* [B, T_ctx+H, P] working grid
    mask,                \* [B, H, P] True == still masked
    m,                   \* index of the decode step
    pc,                  \* "loop", "final", "verify", "returned", "raised"
    pos_probs_flat,      \* per batch element, the confidences of the positions that were
                         \* masked when the last decode step ranked them
    idx_sel,             \* the class indices converted and written by the last pass
    writes,              \* number of assignments made to each grid cell
    sel_hp,              \* the (h, p) positions selected per batch element by the last pass
    \* a second forward_inference call with the same arguments and the same model
    input_latents2, mask2, m2, pc2,
    \* one call of forward
    shape,               \* <<B, T, P>> of discrete_latents
    training,            \* the argument training
    self_training,       \* nn.Module.training
    targets,             \* "None" or "indices"
    latents_in,          \* discrete_latents as passed
    discrete_latents,    \* discrete_latents after masking
    mask_positions,      \* "None" or [B, T, P] booleans
    anchor_idx,          \* "None" or [B, P] timesteps
    loss,                \* "None" or "loss"
    fpc,                 \* "call", "returned", "raised"
    \* one call of exp_schedule_torch
    sched_call,          \* [t, T, P_total]
    sched_result,        \* the value returned, a rational [num, den]
    sched_target,        \* int(torch.ceil(result).item())
    spc,                 \* "call", "returned"
    \* one call of forward_inference followed by the number of masked positions only
    num_masked,          \* per batch element, int(masked_flat_idx.numel())
    m_count,             \* index of the decode step
    pc_count,            \* "loop", "final", "returned"
    final_ran            \* the final completion (lines 177-198) was executed

argVars == <<B, T_ctx, P, H, num_steps, temperature, topk_tie>>
decodeVars == <<input_latents, mask, m, pc, pos_probs_flat, idx_sel, writes, sel_hp>>
pairVars == <<input_latents2, mask2, m2, pc2>>
forwardVars ==
    <<shape, training, self_training, targets, latents_in, discrete_latents, mask_positions,
      anchor_idx, loss, fpc>>
schedVars == <<sched_call, sched_result, sched_target, spc>>

countVars == <<num_masked, m_count, pc_count, final_ran>>

vars == <<argVars, decodeVars, pairVars, forwardVars, schedVars, countVars>>

AllCells == Cells(B, 0, T_ctx + H, P)
ContextCells == Cells(B, 0, T_ctx, P)
HorizonCells == Cells(B, T_ctx, H, P)
MaskCells == Cells(B, 0, H, P)
P_total == H * P

(***************************************************************************)
(* forward_inference, lines 87-107: the working grid and the mask.         *)
(***************************************************************************)
ContextLatents(nb, tctx, np) ==
    [c \in Cells(nb, 0, tctx, np) |-> IndexToLatents((c[1] + c[2] + c[3]) % codebook_size)]

InitialInputLatents(ctx, nb, tctx, nh, np) ==
    [c \in Cells(nb, 0, tctx + nh, np) |-> IF c[2] < tctx THEN ctx[c] ELSE mask_token]

InitialMask(nb, nh, np) == [c \in Cells(nb, 0, nh, np) |-> TRUE]

MaskAny(msk) == \E c \in DOMAIN msk : msk[c]

(***************************************************************************)
(* One scoring pass: forward(training=False) followed by softmax, max and  *)
(* the choice of class indices (lines 112-127).                            *)
(***************************************************************************)
UsesSamplingFromZero(temp) == temp >= 0

\* `if temperature and temperature > 0`
UsesSampling(temp) == temp > 0

PredictedIndices(probs, sampled, temp) ==
    IF UsesSampling(temp) THEN sampled ELSE [c \in DOMAIN probs |-> ArgMax(probs[c])]

MaxProbs(probs) == [c \in DOMAIN probs |-> MaxProb(probs[c])]

UniformProbs == CHOOSE v \in ProbVectors : \A w \in ProbVectors : MaxProb(v) <= MaxProb(w)
SharpProbs == CHOOSE v \in ProbVectors : \A w \in ProbVectors : MaxProb(v) >= MaxProb(w)

\* the probabilities the scoring pass is given to return for the horizon: every grid
\* for a small shape, two checkerboards of confident and unsure cells for a wide one
ScoreGrids ==
    IF B * H * P <= MaxCells
    THEN [HorizonCells -> ProbVectors]
    ELSE {[c \in HorizonCells |->
              IF (c[2] * P + c[3]) % 2 = i THEN SharpProbs ELSE UniformProbs] : i \in {0, 1}}

\* probs[B, T_ctx+H, P]; the rows of the context are never read
Probs(horizon_probs) ==
    [c \in AllCells |-> IF c \in DOMAIN horizon_probs THEN horizon_probs[c] ELSE UniformProbs]

\* the draws of Categorical(probs).sample() for the horizon; nothing is drawn
\* without sampling
SampleGrids ==
    IF UsesSampling(temperature)
    THEN IF B * H * P <= MaxCells
         THEN [HorizonCells -> Classes]
         ELSE {[c \in HorizonCells |-> (c[2] * P + c[3] + i) % codebook_size] : i \in Classes}
    ELSE {[c \in HorizonCells |-> 0]}

Sampled(horizon_sampled) ==
    [c \in AllCells |-> IF c \in DOMAIN horizon_sampled THEN horizon_sampled[c] ELSE 0]

(***************************************************************************)
(* Selection of the positions to unmask for one batch element              *)
(* (lines 133-155).                                                        *)
(***************************************************************************)
MaskedFlatIdx(msk, b, nh, np) ==
    {h * np + p : <<h, p>> \in {hp \in (0 .. (nh - 1)) \X (0 .. (np - 1)) : msk[<<b, hp[1], hp[2]>>]}}

KBNoFloor(Ptot, num_masked_b, target_unmasked) ==
    LET prev_b == Ptot - num_masked_b
    IN  Min2(Max2(target_unmasked - prev_b, 0), num_masked_b)

KB(Ptot, num_masked_b, target_unmasked) ==
    LET prev_b == Ptot - num_masked_b
        k_floor == Max2(Ptot \div 16, 1)
    IN  Max2(k_floor, Min2(Max2(target_unmasked - prev_b, 0), num_masked_b))

\* horizon_probs[b].view(-1)[f] with horizon_probs = max_probs[:, -H:, :]
PosProbsFlat(mp, b, tctx, nh, np) ==
    [f \in 0 .. (nh * np - 1) |-> mp[<<b, (tctx + nh) - nh + (f \div np), f % np>>]]

\* torch.topk(pos_probs_flat, k, largest=False)
RECURSIVE BottomK(_, _, _, _)
BottomK(conf, cand, k, tie) ==
    IF k <= 0 \/ cand = {}
    THEN {}
    ELSE LET best == CHOOSE f \in cand : \A g \in cand :
                         \/ conf[f] < conf[g]
                         \/ conf[f] = conf[g] /\ (IF tie = "first" THEN f <= g ELSE f >= g)
         IN  {best} \cup BottomK(conf, cand \ {best}, k - 1, tie)

\* torch.topk(pos_probs_flat, k, largest=True).indices, as positions of the grid
RECURSIVE TopK(_, _, _, _)
TopK(conf, cand, k, tie) ==
    IF k <= 0 \/ cand = {}
    THEN {}
    ELSE LET best == CHOOSE f \in cand : \A g \in cand :
                         \/ conf[f] > conf[g]
                         \/ conf[f] = conf[g] /\ (IF tie = "first" THEN f <= g ELSE f >= g)
         IN  {best} \cup TopK(conf, cand \ {best}, k - 1, tie)

AllFlatIdx(msk, b, nh, np) == 0 .. (nh * np - 1)

Candidates(msk, b, nh, np) == MaskedFlatIdx(msk, b, nh, np)

\* pos_probs_flat = horizon_probs[b].view(-1)[masked_flat_idx], for every batch element
MaskedPosProbs(msk, mp, nb, tctx, nh, np) ==
    [b \in 0 .. (nb - 1) |->
        LET flat == PosProbsFlat(mp, b, tctx, nh, np)
        IN  [f \in Candidates(msk, b, nh, np) |-> flat[f]]]

SelFlat(msk, mp, b, target, tctx, nh, np, tie) ==
    LET masked_flat_idx == Candidates(msk, b, nh, np)
        num_masked_b == Cardinality(masked_flat_idx)
        k_b == KB(nh * np, num_masked_b, target)
    IN  IF num_masked_b = 0
        THEN {}
        ELSE IF num_masked_b > k_b
             THEN TopK(PosProbsFlat(mp, b, tctx, nh, np), masked_flat_idx, k_b, tie)
             ELSE masked_flat_idx

HSel(f, np) == f \div np
PSel(f, np) == f % np

\* the (h, p) pairs selected for every batch element
SelectedHP(msk, mp, target, nb, tctx, nh, np, tie) ==
    [b \in 0 .. (nb - 1) |->
        {<<HSel(f, np), PSel(f, np)>> : f \in SelFlat(msk, mp, b, target, tctx, nh, np, tie)}]

(***************************************************************************)
(* Write-back of the selected positions (lines 157-169 and 188-198).       *)
(***************************************************************************)
TAbsNoOffset(uh, tctx) == uh

TAbs(uh, tctx) == tctx + uh

WrittenCells(sel, tctx) ==
    UNION {{<<b, TAbs(hp[1], tctx), hp[2]>> : hp \in sel[b]} : b \in DOMAIN sel}

WriteLatents(grid, pi, sel, tctx) ==
    LET written == WrittenCells(sel, tctx)
    IN  [c \in DOMAIN grid |-> IF c \in written THEN IndexToLatents(pi[c]) ELSE grid[c]]

\* mask[b, 0, p_list, 0] = False
UnmaskFirstRow(msk, sel) ==
    [c \in DOMAIN msk |->
        IF c[1] \in DOMAIN sel /\ c[2] = 0 /\ (\E hp \in sel[c[1]] : hp[2] = c[3])
        THEN FALSE ELSE msk[c]]

\* mask[b, uh, :, 0] = ~selected
UnmaskRewriteRow(msk, sel) ==
    [c \in DOMAIN msk |->
        IF c[1] \in DOMAIN sel /\ (\E hp \in sel[c[1]] : hp[1] = c[2])
        THEN <<c[2], c[3]>> \notin sel[c[1]] ELSE msk[c]]

Unmask(msk, sel) ==
    [c \in DOMAIN msk |-> IF c[1] \in DOMAIN sel /\ <<c[2], c[3]>> \in sel[c[1]] THEN FALSE ELSE msk[c]]

\* idx_sel = predicted_indices[b:b+1, t_abs:t_abs+1, p_list], for every group written
IdxSel(pi, sel, tctx) == [c \in WrittenCells(sel, tctx) |-> pi[c]]

CountWrites(w, sel, tctx) ==
    LET written == WrittenCells(sel, tctx)
    IN  [c \in DOMAIN w |-> IF c \in written THEN w[c] + 1 ELSE w[c]]

\* torch.where(mask[b, :, :, 0]) for every batch element (line 185)
RemainingHP(msk, nb, nh, np) ==
    [b \in 0 .. (nb - 1) |->
        {hp \in (0 .. (nh - 1)) \X (0 .. (np - 1)) : msk[<<b, hp[1], hp[2]>>]}]

(***************************************************************************)
(* One iteration of `for m in range(num_steps)` (lines 108-173), as a      *)
(* function of the state it starts from and of the scoring pass.           *)
(***************************************************************************)
EarlyExitNever(msk) == FALSE

\* line 172: if not mask[:, :, :, 0].any(): break
EarlyExit(msk) == ~MaskAny(msk)

DecodeIteration(grid, msk, mm, target_unmasked, horizon_probs, horizon_sampled) ==
    LET probs == Probs(horizon_probs)
        mp == MaxProbs(probs)
        pi == PredictedIndices(probs, Sampled(horizon_sampled), temperature)
        sel == SelectedHP(msk, mp, target_unmasked, B, T_ctx, H, P, topk_tie)
        new_mask == Unmask(msk, sel)
        exit == EarlyExit(new_mask)
    IN  [input_latents |-> WriteLatents(grid, pi, sel, T_ctx),
         mask |-> new_mask,
         pos_probs_flat |-> MaskedPosProbs(msk, mp, B, T_ctx, H, P),
         idx_sel |-> IdxSel(pi, sel, T_ctx),
         sel |-> sel,
         m |-> IF exit THEN mm ELSE mm + 1,
         pc |-> IF exit \/ mm + 1 >= num_steps THEN "final" ELSE "loop"]

(***************************************************************************)
(* Final completion (lines 176-198): one more scoring pass, argmax, and    *)
(* every remaining masked position is written.                             *)
(***************************************************************************)
FinalPass(grid, msk, horizon_probs) ==
    LET probs == Probs(horizon_probs)
        pi == [c \in AllCells |-> ArgMax(probs[c])]
        sel == RemainingHP(msk, B, H, P)
    IN  [input_latents |-> WriteLatents(grid, pi, sel, T_ctx),
         mask |-> Unmask(msk, sel),
         idx_sel |-> IdxSel(pi, sel, T_ctx),
         sel |-> sel]

\* lines 200-205: the optional assertion, then the grid is returned
ReturnOrRaise(msk, ng_verify_mask) ==
    IF ng_verify_mask /\ MaskAny(msk) THEN "raised" ELSE "returned"

(***************************************************************************)
(* The calls of forward_inference that are explored: every small shape,    *)
(* and one wide horizon whose floor P_total // 16 exceeds one.             *)
(***************************************************************************)
Temperatures == {0, 1}
TopkTies == {"first", "last"}

SmallCalls ==
    {a \in [B : 1 .. MaxB, T_ctx : 1 .. MaxTctx, P : 1 .. MaxP, H : 1 .. MaxH,
            num_steps : 0 .. MaxSteps, temperature : Temperatures] :
        a.B * a.H * a.P <= (IF UsesSampling(a.temperature) THEN MaxSampledCells ELSE MaxCells)}

WideCalls ==
    {[B |-> 1, T_ctx |-> 1, P |-> 11, H |-> 3, num_steps |-> 18, temperature |-> 0]}

InitCall(a) ==
    /\ B = a.B
    /\ T_ctx = a.T_ctx
    /\ P = a.P
    /\ H = a.H
    /\ num_steps = a.num_steps
    /\ temperature = a.temperature
    /\ topk_tie \in TopkTies
    /\ input_latents =
           InitialInputLatents(ContextLatents(a.B, a.T_ctx, a.P), a.B, a.T_ctx, a.H, a.P)
    /\ mask = InitialMask(a.B, a.H, a.P)
    /\ m = 0
    /\ pc = IF a.num_steps > 0 THEN "loop" ELSE "final"
    /\ pos_probs_flat = [b \in 0 .. (a.B - 1) |-> <<>>]
    /\ idx_sel = <<>>
    /\ writes = [c \in Cells(a.B, 0, a.T_ctx + a.H, a.P) |-> 0]
    /\ sel_hp = [b \in 0 .. (a.B - 1) |-> {}]

NoCall ==
    /\ B = 0 /\ T_ctx = 0 /\ P = 0 /\ H = 0 /\ num_steps = 0 /\ temperature = 0
    /\ topk_tie = "first"
    /\ input_latents = <<>> /\ mask = <<>> /\ m = 0 /\ pc = "idle"
    /\ pos_probs_flat = <<>> /\ idx_sel = <<>> /\ writes = <<>> /\ sel_hp = <<>>

NoSecondCall == input_latents2 = <<>> /\ mask2 = <<>> /\ m2 = 0 /\ pc2 = "idle"

NoForward ==
    /\ shape = <<0, 0, 0>> /\ training = FALSE /\ self_training = FALSE /\ targets = "None"
    /\ latents_in = <<>> /\ discrete_latents = <<>> /\ mask_positions = "None"
    /\ anchor_idx = "None" /\ loss = "None" /\ fpc = "idle"

NoSchedule ==
    /\ sched_call = [t |-> 0, T |-> 0, P_total |-> 0]
    /\ sched_result = [num |-> 0, den |-> 1] /\ sched_target = 0 /\ spc = "idle"

NoCount == num_masked = <<>> /\ m_count = 0 /\ pc_count = "idle" /\ final_ran = FALSE

Init ==
    /\ \E a \in SmallCalls \cup WideCalls : InitCall(a)
    /\ NoSecondCall /\ NoForward /\ NoSchedule /\ NoCount

DecodeStep ==
    /\ pc = "loop"
    /\ \E target_unmasked \in {TargetUnmasked(m, num_steps, P_total)} :
       \E probs \in ScoreGrids : \E sampled \in SampleGrids :
       \E r \in {DecodeIteration(input_latents, mask, m, target_unmasked, probs, sampled)} :
            /\ pos_probs_flat' = r.pos_probs_flat
            /\ idx_sel' = r.idx_sel
            /\ input_latents' = r.input_latents
            /\ writes' = CountWrites(writes, r.sel, T_ctx)
            /\ sel_hp' = r.sel
            /\ mask' = r.mask
            /\ m' = r.m
            /\ pc' = r.pc
    /\ UNCHANGED <<argVars, pairVars, forwardVars, schedVars, countVars>>

FinalCompletion ==
    /\ pc = "final"
    /\ MaskAny(mask)
    /\ \E probs \in ScoreGrids :
       \E r \in {FinalPass(input_latents, mask, probs)} :
            /\ idx_sel' = r.idx_sel
            /\ input_latents' = r.input_latents
            /\ writes' = CountWrites(writes, r.sel, T_ctx)
            /\ sel_hp' = r.sel
            /\ mask' = r.mask
    /\ pc' = "verify"
    /\ UNCHANGED <<argVars, m, pos_probs_flat, pairVars, forwardVars, schedVars, countVars>>

\* line 176 when nothing is masked any more
NoFinalCompletion ==
    /\ pc = "final"
    /\ ~MaskAny(mask)
    /\ pc' = "verify"
    /\ UNCHANGED <<argVars, input_latents, mask, m, pos_probs_flat, idx_sel, writes,
                   sel_hp, pairVars, forwardVars, schedVars, countVars>>

Return ==
    /\ pc = "verify"
    /\ \E ng_verify_mask \in BOOLEAN : pc' = ReturnOrRaise(mask, ng_verify_mask)
    /\ UNCHANGED <<argVars, input_latents, mask, m, pos_probs_flat, idx_sel, writes,
                   sel_hp, pairVars, forwardVars, schedVars, countVars>>

Next == DecodeStep \/ FinalCompletion \/ NoFinalCompletion \/ Return

Spec == Init /\ [][Next]_vars

(***************************************************************************)
(* Two calls of forward_inference with identical arguments, context and    *)
(* model, advanced side by side.  The scoring pass is a function of the    *)
(* grid it is given: the second call receives the probabilities of the     *)
(* first whenever it presents the same grid, and any probabilities         *)
(* otherwise; each call draws its own samples.                             *)
(***************************************************************************)
PairCalls == {a \in SmallCalls \cup WideCalls : a.temperature = 0}

InitPair ==
    /\ \E a \in PairCalls : InitCall(a)
    /\ input_latents2 = input_latents /\ mask2 = mask /\ m2 = m /\ pc2 = pc
    /\ NoForward /\ NoSchedule /\ NoCount

SecondScoreGrids(probs) == IF input_latents2 = input_latents THEN {probs} ELSE ScoreGrids

PairDecodeStep ==
    /\ pc = "loop" /\ pc2 = "loop"
    /\ \E target_unmasked \in {TargetUnmasked(m, num_steps, P_total)} :
       \E target_unmasked2 \in {TargetUnmasked(m2, num_steps, P_total)} :
       \E probs \in ScoreGrids : \E sampled \in SampleGrids :
       \E probs2 \in SecondScoreGrids(probs) : \E sampled2 \in SampleGrids :
       \E r \in {DecodeIteration(input_latents, mask, m, target_unmasked, probs, sampled)} :
       \E r2 \in {DecodeIteration(input_latents2, mask2, m2, target_unmasked2, probs2, sampled2)} :
            /\ pos_probs_flat' = r.pos_probs_flat
            /\ idx_sel' = r.idx_sel
            /\ input_latents' = r.input_latents
            /\ writes' = CountWrites(writes, r.sel, T_ctx)
            /\ sel_hp' = r.sel
            /\ mask' = r.mask
            /\ m' = r.m
            /\ pc' = r.pc
            /\ input_latents2' = r2.input_latents
            /\ mask2' = r2.mask
            /\ m2' = r2.m
            /\ pc2' = r2.pc
    /\ UNCHANGED <<argVars, forwardVars, schedVars, countVars>>

PairFinalCompletion ==
    /\ pc = "final" /\ pc2 = "final"
    /\ MaskAny(mask) /\ MaskAny(mask2)
    /\ \E probs \in ScoreGrids : \E probs2 \in SecondScoreGrids(probs) :
       \E r \in {FinalPass(input_latents, mask, probs)} :
       \E r2 \in {FinalPass(input_latents2, mask2, probs2)} :
            /\ idx_sel' = r.idx_sel
            /\ input_latents' = r.input_latents
            /\ writes' = CountWrites(writes, r.sel, T_ctx)
            /\ sel_hp' = r.sel
            /\ mask' = r.mask
            /\ input_latents2' = r2.input_latents
            /\ mask2' = r2.mask
    /\ pc' = "verify" /\ pc2' = "verify"
    /\ UNCHANGED <<argVars, m, pos_probs_flat, m2, forwardVars, schedVars, countVars>>

PairNoFinalCompletion ==
    /\ pc = "final" /\ pc2 = "final"
    /\ ~MaskAny(mask) /\ ~MaskAny(mask2)
    /\ pc' = "verify" /\ pc2' = "verify"
    /\ UNCHANGED <<argVars, input_latents, mask, m, pos_probs_flat, idx_sel, writes,
                   sel_hp, input_latents2, mask2, m2, forwardVars, schedVars, countVars>>

PairReturn ==
    /\ pc = "verify" /\ pc2 = "verify"
    /\ \E ng_verify_mask \in BOOLEAN :
        /\ pc' = ReturnOrRaise(mask, ng_verify_mask)
        /\ pc2' = ReturnOrRaise(mask2, ng_verify_mask)
    /\ UNCHANGED <<argVars, input_latents, mask, m, pos_probs_flat, idx_sel, writes,
                   sel_hp, input_latents2, mask2, m2, forwardVars, schedVars, countVars>>

NextPair == PairDecodeStep \/ PairFinalCompletion \/ PairNoFinalCompletion \/ PairReturn

SpecPair == InitPair /\ [][NextPair]_vars

(***************************************************************************)
(* forward (lines 30-78).  torch.rand is drawn in units of 1/RandUnits.    *)
(***************************************************************************)
Rands == 0 .. (RandUnits - 1)

\* torch.rand(B, T, P) < 0.5 + torch.rand(()) * 0.5, both sides in units of 1/(2*RandUnits)
RawMask(rand_cells, rand_ratio) ==
    [c \in DOMAIN rand_cells |-> 2 * rand_cells[c] < RandUnits + rand_ratio]

ForceNoAnchors(raw, anchors) == raw

\* mask_positions[arange(B)[:, None], anchor_idx, arange(P)[None, :]] = False
ForceAnchors(raw, anchors) ==
    [c \in DOMAIN raw |-> IF c[2] = anchors[<<c[1], c[3]>>] THEN FALSE ELSE raw[c]]

\* torch.where(mask_positions.unsqueeze(-1), mask_token, discrete_latents)
ApplyMask(latents, msk) ==
    [c \in DOMAIN latents |-> IF msk[c] THEN mask_token ELSE latents[c]]

\* the guard of the masking block and of the loss block
MasksAndLoss(train_arg, module_training) == train_arg /\ module_training

TargetsAssertNeverFails(tgt) == FALSE

\* assert targets is not None
TargetsAssertFails(tgt) == tgt = "None"

ForwardCalls ==
    {a \in [B : 1 .. MaxB, T : 1 .. MaxT, P : 1 .. MaxP, training : BOOLEAN,
            self_training : BOOLEAN, targets : {"None", "indices"}] :
        a.B * a.T * a.P <= MaxCells}

InitForward ==
    /\ \E a \in ForwardCalls :
        /\ shape = <<a.B, a.T, a.P>>
        /\ training = a.training
        /\ self_training = a.self_training
        /\ targets = a.targets
        /\ latents_in = ContextLatents(a.B, a.T, a.P)
        /\ discrete_latents = ContextLatents(a.B, a.T, a.P)
    /\ mask_positions = "None" /\ anchor_idx = "None" /\ loss = "None" /\ fpc = "call"
    /\ NoCall /\ NoSecondCall /\ NoSchedule /\ NoCount

Forward ==
    /\ fpc = "call"
    /\ IF MasksAndLoss(training, self_training)
       THEN \E rand_ratio \in Rands :
            \E rand_cells \in [DOMAIN latents_in -> Rands] :
            \E anchors \in [(0 .. (shape[1] - 1)) \X (0 .. (shape[3] - 1)) -> 0 .. (shape[2] - 1)] :
            \E msk \in {ForceAnchors(RawMask(rand_cells, rand_ratio), anchors)} :
                   /\ anchor_idx' = anchors
                   /\ mask_positions' = msk
                   /\ discrete_latents' = ApplyMask(discrete_latents, msk)
                   /\ IF TargetsAssertFails(targets)
                      THEN fpc' = "raised" /\ loss' = "None"
                      ELSE fpc' = "returned" /\ loss' = "loss"
       ELSE /\ fpc' = "returned"
            /\ UNCHANGED <<anchor_idx, mask_positions, discrete_latents, loss>>
    /\ UNCHANGED <<shape, training, self_training, targets, latents_in,
                   argVars, decodeVars, pairVars, schedVars, countVars>>

NextForward == Forward

SpecForward == InitForward /\ [][NextForward]_vars

(***************************************************************************)
(* exp_schedule_torch on its own (lines 99-105, 142).  The exponential     *)
(* branch is evaluated for grids of up to MaxPositions positions; the      *)
(* final-step branch also for position counts around 2^24.                 *)
(***************************************************************************)
LargePositions == {Float32Exact - 1, Float32Exact, Float32Exact + 1}

ScheduleCalls ==
    {c \in [t : 0 .. MaxSteps, T : 1 .. (MaxSteps + 1), P_total : 0 .. MaxPositions] : c.t < c.T}
    \cup {[t |-> T - 1, T |-> T, P_total |-> n] : T \in 1 .. (MaxSteps + 1), n \in LargePositions}

InitSchedule ==
    /\ sched_call \in ScheduleCalls
    /\ sched_result = [num |-> 0, den |-> 1] /\ sched_target = 0 /\ spc = "call"
    /\ NoCall /\ NoSecondCall /\ NoForward /\ NoCount

ExpSchedule ==
    /\ spc = "call"
    /\ spc' = "returned"
    /\ sched_result' = exp_schedule_torch(sched_call.t, sched_call.T, sched_call.P_total, schedule_k)
    /\ sched_target' = TargetUnmasked(sched_call.t, sched_call.T, sched_call.P_total)
    /\ UNCHANGED <<sched_call, argVars, decodeVars, pairVars, forwardVars, countVars>>

NextSchedule == ExpSchedule

SpecSchedule == InitSchedule /\ [][NextSchedule]_vars

(***************************************************************************)
(* forward_inference followed by the number of masked positions of each    *)
(* batch element only.  A decode step removes from the count the number of *)
(* positions it selects (lines 140-151, 169), the final completion removes *)
(* all that remain (lines 185-198); the grid and the scores are left out,  *)
(* so horizons beyond 2^24 positions can be followed.                      *)
(***************************************************************************)
\* sel_flat.numel(): k_b positions from topk, or all masked positions (lines 147-151)
NumSelected(Ptot, n_masked, target_unmasked) ==
    LET k_b == KB(Ptot, n_masked, target_unmasked)
    IN  IF n_masked > k_b THEN k_b ELSE n_masked

\* lines 133-169 for every batch element; none is touched once its count is 0
CountAfterStep(counts, Ptot, target_unmasked) ==
    [b \in DOMAIN counts |->
        IF counts[b] = 0 THEN 0 ELSE counts[b] - NumSelected(Ptot, counts[b], target_unmasked)]

\* mask[:, :, :, 0].any()
CountAny(counts) == \E b \in DOMAIN counts : counts[b] > 0

LargeSteps == {1, 2}

CountCalls ==
    [B : 1 .. MaxB, T_ctx : {1}, P : 1 .. MaxP, H : 1 .. MaxH, num_steps : 0 .. MaxSteps,
     temperature : {0}]
    \cup [B : 1 .. MaxB, T_ctx : {1}, P : LargePositions, H : {1}, num_steps : LargeSteps,
          temperature : {0}]

InitCount ==
    /\ \E a \in CountCalls :
        /\ B = a.B /\ T_ctx = a.T_ctx /\ P = a.P /\ H = a.H
        /\ num_steps = a.num_steps /\ temperature = a.temperature
        /\ num_masked = [b \in 0 .. (a.B - 1) |-> a.H * a.P]
        /\ pc_count = IF a.num_steps > 0 THEN "loop" ELSE "final"
    /\ topk_tie = "first"
    /\ m_count = 0 /\ final_ran = FALSE
    /\ input_latents = <<>> /\ mask = <<>> /\ m = 0 /\ pc = "idle"
    /\ pos_probs_flat = <<>> /\ idx_sel = <<>> /\ writes = <<>> /\ sel_hp = <<>>
    /\ NoSecondCall /\ NoForward /\ NoSchedule

\* one iteration of the loop of line 108
CountStep ==
    /\ pc_count = "loop"
    /\ \E target_unmasked \in {TargetUnmasked(m_count, num_steps, P_total)} :
       \E counts \in {CountAfterStep(num_masked, P_total, target_unmasked)} :
            /\ num_masked' = counts
            /\ m_count' = IF CountAny(counts) THEN m_count + 1 ELSE m_count
            /\ pc_count' = IF CountAny(counts) /\ m_count + 1 < num_steps THEN "loop" ELSE "final"
    /\ UNCHANGED <<final_ran, argVars, decodeVars, pairVars, forwardVars, schedVars>>

\* lines 176-198
CountFinalCompletion ==
    /\ pc_count = "final"
    /\ CountAny(num_masked)
    /\ num_masked' = [b \in DOMAIN num_masked |-> 0]
    /\ final_ran' = TRUE
    /\ pc_count' = "returned"
    /\ UNCHANGED <<m_count, argVars, decodeVars, pairVars, forwardVars, schedVars>>

\* line 176 when nothing is masked any more
CountNoFinalCompletion ==
    /\ pc_count = "final"
    /\ ~CountAny(num_masked)
    /\ pc_count' = "returned"
    /\ UNCHANGED <<num_masked, m_count, final_ran, argVars, decodeVars, pairVars,
                   forwardVars, schedVars>>

NextCount == CountStep \/ CountFinalCompletion \/ CountNoFinalCompletion

SpecCount == InitCount /\ [][NextCount]_vars

(***************************************************************************)
(* Properties of forward_inference.                                        *)
(***************************************************************************)
Terminated == pc \in {"verify", "returned", "raised"}

MaskCount(msk, b) == Cardinality({c \in DOMAIN msk : c[1] = b /\ msk[c]})

\* the bit of the mask that belongs to a cell of the horizon
MaskCell(c) == <<c[1], c[2] - T_ctx, c[3]>>

\* C1: for H >= 1 and num_steps >= 1, whatever the scoring passes return, no horizon
\* position is masked once the decoding is over, and the NG_VERIFY_MASK assertion
\* does not fail.
DecodePostcondition ==
    (H >= 1 /\ num_steps >= 1) =>
        /\ pc # "raised"
        /\ Terminated => ~MaskAny(mask)

DecodePostconditionWitness ==
    /\ pc = "returned" /\ num_steps >= 2 /\ m >= 1 /\ B = 2 /\ H * P >= 2
    /\ ~MaskAny(mask)

\* C2: mask bits only go from true to false, so the number of masked positions of a
\* batch element never grows from one step to the next; and when the call is over
\* every batch element has fewer masked positions than the H * P it started with.
MaskShrinks ==
    /\ [][\A c \in DOMAIN mask :
            /\ ~mask[c] => ~mask'[c]
            /\ MaskCount(mask', c[1]) <= MaskCount(mask, c[1])]_vars
    /\ [](Terminated => \A b \in 0 .. (B - 1) : MaskCount(mask, b) < H * P)

MaskShrinksWitness ==
    /\ pc = "loop" /\ m = 2
    /\ \E b \in 0 .. (B - 1) : MaskCount(mask, b) > 0 /\ MaskCount(mask, b) < H * P - 1

\* C3: a horizon cell holds the mask token and has never been written while its mask
\* bit is true; in the step that clears the bit it is written once, with
\* index_to_latents_fn of the class chosen for it in that step's scoring pass; and
\* afterwards no step and no final completion writes it again.
WriteOnce ==
    /\ [](\A c \in HorizonCells :
            /\ mask[MaskCell(c)] => input_latents[c] = mask_token /\ writes[c] = 0
            /\ ~mask[MaskCell(c)] => input_latents[c] # mask_token /\ writes[c] = 1)
    /\ [][\A c \in HorizonCells :
            /\ (mask[MaskCell(c)] /\ ~mask'[MaskCell(c)]) =>
                   /\ c \in DOMAIN idx_sel'
                   /\ input_latents'[c] = IndexToLatents(idx_sel'[c])
                   /\ writes'[c] = writes[c] + 1
            /\ ~mask[MaskCell(c)] =>
                   /\ input_latents'[c] = input_latents[c]
                   /\ writes'[c] = writes[c]]_vars

\* a call of three steps is over; some cell was written before the last pass
WriteOnceWitness ==
    /\ pc = "returned" /\ m >= 2
    /\ \A c \in HorizonCells : writes[c] = 1
    /\ \E c \in HorizonCells : c \notin DOMAIN idx_sel
    /\ \E c \in HorizonCells, d \in HorizonCells : input_latents[c] # input_latents[d]

\* C4: the first T_ctx timesteps of the working grid always equal the context that
\* was passed in, and no cell before T_ctx is ever assigned.
ContextUntouched ==
    \A c \in ContextCells :
        /\ input_latents[c] = ContextLatents(B, T_ctx, P)[c]
        /\ writes[c] = 0

ContextUntouchedWitness ==
    /\ pc = "returned" /\ T_ctx >= 1 /\ B = 2
    /\ \A c \in HorizonCells : writes[c] = 1

\* C9: in a decode step a batch element with numMasked > 0 masked positions commits
\* exactly clamp(n - numResolved, floor, numMasked) of them, the ceiling numMasked
\* winning over the floor max(P_total // 16, 1); so it commits at least
\* min(floor, numMasked) and at most numMasked.
Clamp(x, lo, hi) == Min2(hi, Max2(lo, x))

CommitCount ==
    [][pc = "loop" =>
        \A b \in 0 .. (B - 1) :
            LET numMasked == MaskCount(mask, b)
                numResolved == H * P - numMasked
                n == TargetUnmasked(m, num_steps, H * P)
                floor == Max2((H * P) \div 16, 1)
                committed == numMasked - MaskCount(mask', b)
            IN  numMasked > 0 =>
                    /\ committed = Clamp(n - numResolved, floor, numMasked)
                    /\ committed = Cardinality(sel_hp'[b])
                    /\ committed >= Min2(floor, numMasked)
                    /\ committed <= numMasked]_vars

\* a step, not the last of the budget, in which the floor exceeded the positions left
CommitCountWitness ==
    /\ pc = "final" /\ m < num_steps - 1
    /\ (H * P) \div 16 >= 2
    /\ \E b \in 0 .. (B - 1) : Cardinality(sel_hp[b]) = 1

\* C10: the positions a decode step commits for a batch element are masked horizon
\* positions of that element, and each has a confidence (max probability of this
\* step's scoring pass) at least that of every position of the element that the step
\* leaves masked; nothing else is written.
TopConfidence ==
    [][pc = "loop" =>
        /\ \A b \in 0 .. (B - 1) :
            /\ \A hp \in sel_hp'[b] : mask[<<b, hp[1], hp[2]>>] /\ ~mask'[<<b, hp[1], hp[2]>>]
            /\ \A c \in DOMAIN mask : (c[1] = b /\ mask[c] /\ ~mask'[c]) => <<c[2], c[3]>> \in sel_hp'[b]
            /\ \A hp \in sel_hp'[b] : \A u \in DOMAIN mask :
                   (u[1] = b /\ mask'[u]) =>
                       pos_probs_flat'[b][hp[1] * P + hp[2]] >= pos_probs_flat'[b][u[2] * P + u[3]]
        /\ \A c \in AllCells :
               writes'[c] # writes[c] => c \in HorizonCells /\ mask[MaskCell(c)]]_vars

TopConfidenceWitness ==
    /\ pc = "loop" /\ m >= 1 /\ B = 2
    /\ \A b \in 0 .. (B - 1) :
           \E hp \in sel_hp[b] : \E u \in DOMAIN mask :
               /\ u[1] = b /\ mask[u]
               /\ pos_probs_flat[b][hp[1] * P + hp[2]] > pos_probs_flat[b][u[2] * P + u[3]]

\* C11: the loop runs only while some horizon position is masked; a step that leaves
\* no position masked for any batch element ends the loop at once (the step index is
\* not advanced); once nothing is masked no scoring pass or write follows, neither a
\* later step nor the final completion; and a step that leaves a position masked is
\* followed by the next step whenever fewer than num_steps steps have run.
EarlyTermination ==
    /\ [](pc = "loop" => MaskAny(mask) /\ m < num_steps)
    /\ [][(pc = "loop" /\ ~MaskAny(mask')) => (pc' = "final" /\ m' = m)]_vars
    /\ [][~MaskAny(mask) =>
            /\ pc' # "loop"
            /\ UNCHANGED <<input_latents, mask, m, writes, idx_sel, sel_hp, pos_probs_flat>>]_vars
    /\ [][(pc = "loop" /\ MaskAny(mask')) =>
            /\ m' = m + 1
            /\ pc' = IF m + 1 < num_steps THEN "loop" ELSE "final"]_vars

\* a call returned after its second step emptied the mask, with a step to spare
EarlyTerminationWitness ==
    /\ pc = "returned" /\ m >= 1 /\ m + 1 < num_steps
    /\ ~MaskAny(mask)
    /\ \A c \in HorizonCells : writes[c] = 1

ScheduleBoundary ==
    (spc = "returned" /\ sched_call.t = sched_call.T - 1) =>
        /\ sched_result.num = sched_call.P_total * sched_result.den
        /\ sched_target = sched_call.P_total

(***************************************************************************)
(* Properties of forward.                                                  *)
(***************************************************************************)
\* C6: when forward has masked (training and self.training) and returns, every
\* (batch, position) pair has a timestep whose mask bit is false and whose latent is
\* the one passed in, not the mask token.
AnchorInvariant ==
    (fpc = "returned" /\ MasksAndLoss(training, self_training)) =>
        \A b \in 0 .. (shape[1] - 1) : \A p \in 0 .. (shape[3] - 1) :
            \E t \in 0 .. (shape[2] - 1) :
                /\ ~mask_positions[<<b, t, p>>]
                /\ discrete_latents[<<b, t, p>>] = latents_in[<<b, t, p>>]
                /\ discrete_latents[<<b, t, p>>] # mask_token

AnchorInvariantWitness ==
    /\ fpc = "returned" /\ MasksAndLoss(training, self_training)
    /\ shape[2] >= 2
    /\ \A b \in 0 .. (shape[1] - 1) : \A p \in 0 .. (shape[3] - 1) :
           \E t \in 0 .. (shape[2] - 1) :
               mask_positions[<<b, t, p>>] /\ discrete_latents[<<b, t, p>>] = mask_token

\* C7 as stated: forward called with training=True and without targets never returns.
TrainingWithoutTargetsRaises ==
    (fpc \in {"returned", "raised"} /\ training /\ targets = "None") => fpc = "raised"

\* C7 amended: forward called with training=True on a module in training mode
\* (self.training) and without targets raises; and a call that returns in that mode
\* returns a loss.
TrainingModeWithoutTargetsRaises ==
    (fpc \in {"returned", "raised"} /\ training /\ self_training) =>
        /\ targets = "None" => fpc = "raised"
        /\ fpc = "returned" => loss = "loss"

TrainingModeWithoutTargetsRaisesWitness ==
    fpc = "raised" /\ training /\ self_training /\ targets = "None"

(***************************************************************************)
(* Properties of the count of masked positions.                            *)
(***************************************************************************)
\* C12: in a call with num_steps >= 1 and H >= 1 the loop leaves no position masked
\* for any batch element, so the final completion is never executed.
LoopAloneUnmasksAll ==
    (num_steps >= 1 /\ H >= 1) =>
        /\ ~final_ran
        /\ pc_count \in {"final", "returned"} => ~CountAny(num_masked)


====
